---------------------------- MODULE Spec2Model ----------------------------
(***************************************************************************)
(* Model of src/agent.py: the plan-execution control loop of               *)
(* PlaywrightAutomation (run_automation) together with the command         *)
(* interpreter (execute_browser_commands), process_model_output,           *)
(* check_for_stagnation, manage_session and generate_final_output.         *)
(*                                                                         *)
(* A Python string is modelled as the sequence of its lexemes: a lexeme is *)
(* either a maximal run of non-blank characters (a token) or a run of      *)
(* whitespace, written " ".  The empty string is << >>, a whitespace-only  *)
(* string is << " " >>, and "GOTO_URL u" is << "GOTO_URL", " ", "u" >>.    *)
(***************************************************************************)
EXTENDS Integers, Sequences, FiniteSets, TLC

VARIABLES
    pc,               \* position of run_automation
    cycle,            \* number of the current pass through the while loop
    previous_plan,    \* local previous_plan
    current_plan,     \* local current_plan
    model_output,     \* local model_output (None or a CommandOutput)
    commands,         \* local commands
    status,           \* local status
    search_results,   \* local search_results
    session_messages, \* local session_messages
    elements,         \* local elements
    final_output,     \* local final_output (None until it is produced)
    session_data,     \* module global session_data
    profiles,         \* the files profiles/<user_id>.json
    model_calls,      \* requests received by the model endpoint
    resolutions,      \* element enumerations received by the page
    batch,            \* the last invocation of execute_browser_commands in this pass
    batches,          \* number of invocations of execute_browser_commands
    summaries,        \* number of "Final Output" lines printed
    exit_reason,      \* which break statement left the loop
    raw_response,     \* what send_to_model receives for its request
    resolver_failed,  \* the element resolution of this pass logged an error
    search_request    \* the query google_search is given, and what it sent

vars == << pc, cycle, previous_plan, current_plan, model_output, commands,
           status, search_results, session_messages, elements, final_output,
           session_data, profiles, model_calls, resolutions, batch, batches,
           summaries, exit_reason, raw_response, search_request, resolver_failed >>

-----------------------------------------------------------------------------
(* Bounds of the model *)

MaxSteps == 2

MaxCycles == 2

MaxBatch == 2

MaxHistory == 3

MaxQuery == 11

-----------------------------------------------------------------------------
(* Python values *)

\* A value of a variable that may hold None, a str or a list carries its type.
NoneV == [type |-> "NoneType"]

Str(s) == [type |-> "str", val |-> s]

List(l) == [type |-> "list", val |-> l]

\* truthiness of None, a str or a list
Truthy(v) == v.type # "NoneType" /\ v.val # << >>

\* the empty dict
EmptyMap == [n \in {} |-> ""]

\* str.split(): the tokens of a string, whitespace dropped
Split(s) == SelectSeq(s, LAMBDA x : x # " ")

RECURSIVE Join(_)
\* " ".join(parts)
Join(parts) ==
    IF Len(parts) = 0 THEN << >>
    ELSE IF Len(parts) = 1 THEN << parts[1] >>
    ELSE << parts[1], " " >> \o Join(Tail(parts))

\* parts[k:] for a 0-based k
From(parts, k) == SubSeq(parts, k + 1, Len(parts))

-----------------------------------------------------------------------------
(* class PlanStep, class CommandOutput *)

PlanStep(d, c) == [step_desc |-> d, command |-> c]

CommandOutput(plan, st) ==
    [type |-> "CommandOutput", PLAN |-> plan, pageContextObjects |-> EmptyMap,
     userInfo |-> EmptyMap, status |-> st]

-----------------------------------------------------------------------------
(* send_to_model and the construction of CommandOutput *)

\* A parsed JSON value is None, a str, a list or a dict (an object: a function
\* from its keys to JSON values).
Dict(f) == [type |-> "dict", val |-> f]

\* a step that must also be non-empty in both fields
ValidStep_non_empty(step) ==
    /\ step.type = "dict"
    /\ \A f \in {"step_desc", "command"} :
           /\ f \in DOMAIN step.val
           /\ step.val[f].type = "str"
           /\ step.val[f].val # << >>

\* class PlanStep: step_desc: str, command: str.  Both fields are required
\* and must be strings; the empty string is a string.
ValidStep(step) ==
    /\ step.type = "dict"
    /\ \A f \in {"step_desc", "command"} :
           /\ f \in DOMAIN step.val
           /\ step.val[f].type = "str"

\* class CommandOutput: PLAN: List[PlanStep], pageContextObjects: dict,
\* userInfo: dict, status: Optional[str] = None
ValidPayload(parsed) ==
    /\ parsed.type = "dict"
    /\ {"PLAN", "pageContextObjects", "userInfo"} \subseteq DOMAIN parsed.val
    /\ parsed.val.PLAN.type = "list"
    /\ \A k \in 1..Len(parsed.val.PLAN.val) : ValidStep(parsed.val.PLAN.val[k])
    /\ parsed.val.pageContextObjects.type = "dict"
    /\ parsed.val.userInfo.type = "dict"
    /\ "status" \in DOMAIN parsed.val
           => parsed.val.status.type \in {"NoneType", "str"}

\* the object built from a payload that validates
Construct(parsed) ==
    CommandOutput([k \in 1..Len(parsed.val.PLAN.val) |->
                       PlanStep(parsed.val.PLAN.val[k].val.step_desc.val,
                                parsed.val.PLAN.val[k].val.command.val)],
                  IF "status" \in DOMAIN parsed.val THEN parsed.val.status
                  ELSE NoneV)

\* response is what the request to the model endpoint comes to: "error" when
\* the request fails or the answer is not JSON (lines 60-77 raise), "json"
\* with the value json.loads returned.  A ValidationError or any other
\* exception gives None.
send_to_model(response) ==
    IF response.kind # "json" THEN NoneV
    ELSE IF ValidPayload(response.parsed) THEN Construct(response.parsed)
    ELSE NoneV

-----------------------------------------------------------------------------
(* process_model_output, check_for_stagnation *)

NotSure == << "NOT", " ", "SURE" >>

Done == << "DONE" >>

Wrong == << "WRONG" >>

RECURSIVE JoinStrs(_)
\* " ".join(strs) for a list of strings
JoinStrs(strs) ==
    IF Len(strs) = 0 THEN << >>
    ELSE IF Len(strs) = 1 THEN strs[1]
    ELSE strs[1] \o << " " >> \o JoinStrs(Tail(strs))

\* [step.command for step in output.PLAN if step.command]
PlanCommands(plan) ==
    LET nonEmpty == SelectSeq(plan, LAMBDA step : step.command # << >>)
    IN  [k \in 1..Len(nonEmpty) |-> nonEmpty[k].command]

process_model_output(output) ==
    IF output = NoneV
    THEN [commands |-> << >>, explanation |-> << >>, status |-> Str(NotSure)]
    ELSE [commands    |-> PlanCommands(output.PLAN),
          explanation |-> JoinStrs([k \in 1..Len(output.PLAN) |->
                                        output.PLAN[k].step_desc]),
          status      |-> IF Truthy(output.status) THEN output.status
                          ELSE Str(NotSure)]

\* a comparison by identity (previous_plan is current_plan): every model call
\* builds a new list, so it never holds
check_for_stagnation_identity(previous, current) == FALSE

\* a missing previous plan counts as a repetition
check_for_stagnation_none_matches(previous, current) ==
    previous = NoneV \/ previous = current

check_for_stagnation(previous, current) == previous = current

-----------------------------------------------------------------------------
(* google_search *)

QueryTokens == 10

\* the whole query is sent, however long
SimplifiedQuery_untruncated(query) == Join(Split(query))

\* the q parameter of the request
SimplifiedQuery(query) ==
    LET parts == Split(query)
    IN  Join(SubSeq(parts, 1, IF Len(parts) < QueryTokens THEN Len(parts)
                                 ELSE QueryTokens))

\* api is what the Search API does with the request: it fails, or it answers
\* with a body that may hold items
google_search(query, api) ==
    IF api.kind = "error" THEN << >>
    ELSE IF "items" \in DOMAIN api.body THEN api.body.items
    ELSE << >>

\* item['title'] and item['link'] exist for every item: the search results
\* summaries raise KeyError otherwise
Keyed(items) == \A k \in 1..Len(items) : {"title", "link"} \subseteq DOMAIN items[k]

-----------------------------------------------------------------------------
(* execute_browser_commands *)

\* A call of a page primitive or of the Search Connector made for the command
\* at position i; raises tells whether the call raised, answer is what the
\* Search API did with the request (None for a page primitive).
Call(i, op, target, text) ==
    [cmd |-> i, op |-> op, target |-> target, text |-> text, raises |-> FALSE,
     answer |-> NoneV]

Quiet == [calls |-> << >>, raised |-> FALSE, returned |-> FALSE, value |-> NoneV]

\* page.<op>(...) for the command at position i: the call, and its exception
\* when the page raises
Primitive(i, c, fails) ==
    [Quiet EXCEPT !.calls = << [c EXCEPT !.raises = (i \in fails)] >>,
                  !.raised = (i \in fails)]

\* elements[element_name] without the membership test: KeyError when absent
OnElement_unguarded(i, op, name, text, elems, fails) ==
    IF name \in DOMAIN elems
    THEN Primitive(i, Call(i, op, elems[name], text), fails)
    ELSE [Quiet EXCEPT !.raised = TRUE]

\* an unmapped name is handed to the page as if it were a selector
OnElement_fallback(i, op, name, text, elems, fails) ==
    IF name \in DOMAIN elems
    THEN Primitive(i, Call(i, op, elems[name], text), fails)
    ELSE Primitive(i, Call(i, op, name, text), fails)

\* if element_name in elements: page.<op>(elements[element_name], ...)
\* else: logging.warning(...)
OnElement(i, op, name, text, elems, fails) ==
    IF name \in DOMAIN elems
    THEN Primitive(i, Call(i, op, elems[name], text), fails)
    ELSE Quiet

\* One pass of the for loop.  fails is the set of positions whose page
\* primitive raises when it is invoked; api is the Search API's behaviour.
\* A step yields the primitive calls it made, whether it raised into the
\* except clause, and whether it returned (with which value).
ExecuteOne(i, command, elems, fails, api) ==
    LET parts  == Split(command)
        action == parts[1]
        error  == [Quiet EXCEPT !.raised = TRUE]
    IN  IF command = << >> THEN Quiet
        ELSE IF Len(parts) = 0 THEN error
        ELSE IF action = "GOTO_URL" THEN
            IF Len(parts) < 2 THEN error
            ELSE Primitive(i, Call(i, "goto", parts[2], << >>), fails)
        ELSE IF action = "CLICK" /\ Len(parts) > 1 THEN
            OnElement(i, "click", parts[2], << >>, elems, fails)
        ELSE IF action = "TYPE" /\ Len(parts) > 2 THEN
            OnElement(i, "fill", parts[2], Join(From(parts, 2)), elems, fails)
        ELSE IF action = "SUBMIT" /\ Len(parts) > 1 THEN
            OnElement(i, "press", parts[2], << "Enter" >>, elems, fails)
        ELSE IF action = "GOOGLE_SEARCH_API" THEN
            LET query   == Join(From(parts, 1))
                results == google_search(query, api)
                call    == [Call(i, "search", SimplifiedQuery(query), << >>)
                              EXCEPT !.answer = api]
            IN  IF Keyed(results)
                THEN [calls |-> << call >>, raised |-> FALSE, returned |-> TRUE,
                      value |-> List(results)]
                ELSE [Quiet EXCEPT !.calls = << call >>, !.raised = TRUE]
        ELSE Quiet

\* the search results are kept and returned after the for loop instead of
\* from inside it: the commands after the search are still executed
RECURSIVE ExecuteFrom_return_at_end(_, _, _, _, _, _)
ExecuteFrom_return_at_end(i, cmds, elems, fails, api, acc) ==
    IF i > Len(cmds) THEN acc
    ELSE LET one  == ExecuteOne(i, cmds[i], elems, fails, api)
             next == [acc EXCEPT !.calls   = acc.calls \o one.calls,
                                 !.visited = Append(acc.visited, i),
                                 !.raised  = one.raised,
                                 !.value   = IF one.returned THEN one.value
                                             ELSE acc.value]
         IN  IF one.raised THEN [next EXCEPT !.value = NoneV]
             ELSE ExecuteFrom_return_at_end(i + 1, cmds, elems, fails, api, next)

\* a try/except around each command instead of around the for loop: the
\* commands after a failure are still executed
RECURSIVE ExecuteFrom_per_command(_, _, _, _, _, _)
ExecuteFrom_per_command(i, cmds, elems, fails, api, acc) ==
    IF i > Len(cmds) THEN acc
    ELSE LET one  == ExecuteOne(i, cmds[i], elems, fails, api)
             next == [acc EXCEPT !.calls   = acc.calls \o one.calls,
                                 !.visited = Append(acc.visited, i),
                                 !.raised  = one.raised,
                                 !.value   = one.value]
         IN  IF one.returned THEN next
             ELSE ExecuteFrom_per_command(i + 1, cmds, elems, fails, api, next)

RECURSIVE ExecuteFrom(_, _, _, _, _, _)
ExecuteFrom(i, cmds, elems, fails, api, acc) ==
    IF i > Len(cmds) THEN acc
    ELSE LET one  == ExecuteOne(i, cmds[i], elems, fails, api)
             next == [acc EXCEPT !.calls   = acc.calls \o one.calls,
                                 !.visited = Append(acc.visited, i),
                                 !.raised  = one.raised,
                                 !.value   = one.value]
         IN  IF one.raised \/ one.returned THEN next
             ELSE ExecuteFrom(i + 1, cmds, elems, fails, api, next)

\* The whole call: the page primitives invoked (calls), the positions the for
\* loop reached (visited), whether the except clause ran (raised) and the
\* return value (value).
execute_browser_commands(cmds, elems, fails, api) ==
    ExecuteFrom(1, cmds, elems, fails, api,
                [calls |-> << >>, visited |-> << >>, raised |-> FALSE,
                 value |-> NoneV])

-----------------------------------------------------------------------------
(* generate_final_output *)

Line(label, text) == [label |-> label, text |-> text]

\* str(v) of None or a str, as an f-string formats it
Format(v) == IF v.type = "NoneType" THEN << "None" >> ELSE v.val

\* "\n".join(f"Title: {item['title']}\nURL: {item['link']}" for item in results)
ResultsSummary(items) ==
    [k \in 1..(2 * Len(items)) |->
        IF k % 2 = 1 THEN Line("Title", << items[(k + 1) \div 2].title >>)
        ELSE Line("URL", << items[k \div 2].link >>)]

PlanSummary(output) ==
    [k \in 1..Len(output.PLAN) |-> Line("Step", output.PLAN[k].step_desc)]

CouldNotGenerate == << Line("Final output could not be generated.", << >>) >>

\* the search results iterated without the "if search_results" test: None
\* raises TypeError and the except clause answers
generate_final_output_unguarded(output, results) ==
    IF results = NoneV \/ ~Keyed(results.val) THEN CouldNotGenerate
    ELSE << Line("Task Summary", << >>) >> \o PlanSummary(output)
         \o << Line("Key URLs from Search Results", << >>) >>
         \o ResultsSummary(results.val)
         \o << Line("Task Status", Format(output.status)) >>

generate_final_output(output, results) ==
    IF Truthy(results)
    THEN IF Keyed(results.val)
         THEN << Line("Task Summary", << >>) >> \o PlanSummary(output)
              \o << Line("Key URLs from Search Results", << >>) >>
              \o ResultsSummary(results.val)
              \o << Line("Task Status", Format(output.status)) >>
         ELSE CouldNotGenerate
    ELSE << Line("Task Summary", << >>) >> \o PlanSummary(output)
         \o << Line("No URLs or specific results were found.", << >>) >>
         \o << Line("Task Status", Format(output.status)) >>

-----------------------------------------------------------------------------
(* get_all_interactable_elements *)

\* An attribute or inner text that is absent or empty is "".
InputEntry(i, f) ==
    IF f.placeholder # ""
    THEN << "input_placeholder_" \o ToString(i),
            "input[placeholder=\"" \o f.placeholder \o "\"]" >>
    ELSE IF f.name # ""
    THEN << "input_name_" \o ToString(i), "input[name=\"" \o f.name \o "\"]" >>
    ELSE << "input_" \o ToString(i), "input:nth-of-type(" \o ToString(i + 1) \o ")" >>

ButtonEntry(i, b) ==
    IF b.aria_label # ""
    THEN << "button_aria_label_" \o ToString(i),
            "button[aria-label=\"" \o b.aria_label \o "\"]" >>
    ELSE IF b.text # ""
    THEN << "button_text_" \o ToString(i), "button:has-text(\"" \o b.text \o "\")" >>
    ELSE << "button_" \o ToString(i), "button:nth-of-type(" \o ToString(i + 1) \o ")" >>

LinkEntry(i, l) ==
    IF l.text # ""
    THEN << "link_text_" \o ToString(i), "a:has-text(\"" \o l.text \o "\")" >>
    ELSE IF l.href # ""
    THEN << "link_href_" \o ToString(i), "a[href=\"" \o l.href \o "\"]" >>
    ELSE << "link_" \o ToString(i), "a:nth-of-type(" \o ToString(i + 1) \o ")" >>

\* the except clause returns the entries collected before the failure
get_all_interactable_elements_partial(dom, failure) ==
    LET entries ==
            (IF failure \in {"none", "button", "link"}
             THEN {InputEntry(k - 1, dom.inputs[k]) : k \in 1..Len(dom.inputs)}
             ELSE {})
            \cup (IF failure \in {"none", "link"}
                  THEN {ButtonEntry(k - 1, dom.buttons[k]) : k \in 1..Len(dom.buttons)}
                  ELSE {})
            \cup (IF failure = "none"
                  THEN {LinkEntry(k - 1, dom.links[k]) : k \in 1..Len(dom.links)}
                  ELSE {})
    IN  [n \in {e[1] : e \in entries} |-> (CHOOSE e \in entries : e[1] = n)[2]]

\* dom is the page's inputs, buttons and links in DOM order; failure names the
\* element kind whose enumeration raises ("none" when none does)
get_all_interactable_elements(dom, failure) ==
    LET entries ==
            {InputEntry(k - 1, dom.inputs[k]) : k \in 1..Len(dom.inputs)}
            \cup {ButtonEntry(k - 1, dom.buttons[k]) : k \in 1..Len(dom.buttons)}
            \cup {LinkEntry(k - 1, dom.links[k]) : k \in 1..Len(dom.links)}
    IN  IF failure # "none" THEN EmptyMap
        ELSE [n \in {e[1] : e \in entries} |->
                 (CHOOSE e \in entries : e[1] = n)[2]]

-----------------------------------------------------------------------------
(* load_user_profile, save_user_profile, manage_session *)

user_id == "default_user"

\* files maps a user id to the content of profiles/<user_id>.json, NoneV when
\* the file does not exist
load_user_profile(files, user) ==
    IF files[user] # NoneV THEN files[user]
    ELSE [type |-> "profile", user_id |-> user, preferences |-> EmptyMap,
          session_history |-> << >>]

save_user_profile(files, user, profile_data) ==
    [files EXCEPT ![user] = profile_data]

\* manage_session(user, "load"): the new value of the global session_data
manage_session_load(files, user) ==
    List(load_user_profile(files, user).session_history)

\* the profile is written with the new entry alone
manage_session_save_overwrite(files, user, data) ==
    save_user_profile(files, user,
        [load_user_profile(files, user) EXCEPT !.session_history = << data >>])

\* manage_session(user, "save", data): the new content of the profile files
manage_session_save(files, user, data) ==
    LET profile_data == load_user_profile(files, user)
    IN  save_user_profile(files, user,
            [profile_data EXCEPT !.session_history = Append(@, data)])

\* manage_session(user, "clear"): the new value of the global session_data
manage_session_clear == List(<< >>)

\* save writes a profile built from the entry alone, without reading the
\* stored one first
manage_session_overwrite(files, global, user, action, data) ==
    IF action = "load"
    THEN [files |-> files, session_data |-> manage_session_load(files, user)]
    ELSE IF action = "save"
    THEN [files |-> save_user_profile(files, user,
                        [type |-> "profile", user_id |-> user,
                         preferences |-> EmptyMap, session_history |-> << data >>]),
          session_data |-> global]
    ELSE IF action = "clear"
    THEN [files |-> files, session_data |-> manage_session_clear]
    ELSE [files |-> files, session_data |-> global]

\* load writes the fresh profile of a user that has none
manage_session_creating(files, global, user, action, data) ==
    IF action = "load"
    THEN [files |-> save_user_profile(files, user, load_user_profile(files, user)),
          session_data |-> manage_session_load(files, user)]
    ELSE IF action = "save"
    THEN [files |-> manage_session_save(files, user, data), session_data |-> global]
    ELSE IF action = "clear"
    THEN [files |-> files, session_data |-> manage_session_clear]
    ELSE [files |-> files, session_data |-> global]

\* manage_session(user_id, action, data): the profile files and the global
\* session_data after the call
manage_session(files, global, user, action, data) ==
    IF action = "load"
    THEN [files |-> files, session_data |-> manage_session_load(files, user)]
    ELSE IF action = "save"
    THEN [files |-> manage_session_save(files, user, data), session_data |-> global]
    ELSE IF action = "clear"
    THEN [files |-> files, session_data |-> manage_session_clear]
    ELSE [files |-> files, session_data |-> global]

-----------------------------------------------------------------------------
(* What the environment can answer *)

GotoExample == << "GOTO_URL", " ", "https://example.com" >>

\* the commands of the plans the loop is given: none, a navigation, and an
\* interaction with an element the resolver can name
LoopCommands ==
    { << >>,
      GotoExample,
      << "CLICK", " ", "input_0" >> }

Steps == { PlanStep(<< "go" >>, c) : c \in LoopCommands }

SeqsUpTo(S, n) == UNION { [1..k -> S] : k \in 0..n }

Plans == SeqsUpTo(Steps, MaxSteps)

Statuses == { NoneV, Str(Done), Str(NotSure), Str(Wrong), Str(<< "CONTINUE" >>) }

\* send_to_model returns None (request failure, malformed JSON, schema
\* violation) or a validated CommandOutput
ModelOutcomes == { NoneV } \cup { CommandOutput(p, st) : p \in Plans, st \in Statuses }

Item(t, l) == [title |-> t, link |-> l, snippet |-> "s"]

\* What the Search API does with a request: the request fails, or the API
\* answers with a body without items, or with items that carry a title, a
\* link and a snippet each, as the API returns them.
SearchBehaviours ==
    { [kind |-> "error"],
      [kind |-> "ok", body |-> [kind |-> "customsearch#search"]],
      [kind |-> "ok", body |-> [items |-> << Item("Vegan", "https://v.example") >>]],
      [kind |-> "ok", body |-> [items |-> << Item("Vegan", "https://v.example"),
                                             Item("Cafe", "https://c.example") >>]] }

Doms ==
    { [inputs |-> << >>, buttons |-> << >>, links |-> << >>],
      [inputs  |-> << [placeholder |-> "", name |-> ""] >>,
       buttons |-> << [aria_label |-> "", text |-> "Go"] >>,
       links   |-> << [href |-> "/more", text |-> ""] >>] }

Failures == { "none", "input", "button", "link" }

\* The JSON the model can answer with.  A field of a step is null, an empty
\* string or a string, or is missing; a step can also be a bare string.
RawFields == { NoneV, Str(<< >>), Str(<< "go" >>) }

RawSteps ==
    { Dict([step_desc |-> d, command |-> c]) : d \in RawFields, c \in RawFields }
    \cup { Dict([step_desc |-> d]) : d \in RawFields }
    \cup { Dict([command |-> c]) : c \in RawFields }
    \cup { Str(<< "go" >>) }

\* a PLAN of up to n steps, or one that is no sequence
RawPlans(n) ==
    { List(l) : l \in SeqsUpTo(RawSteps, n) }
    \cup { NoneV, Str(<< "go" >>), Dict(EmptyMap) }

RawMaps == { Dict(EmptyMap), List(<< >>) }

RawStatuses == { NoneV, Str(Done), List(<< >>) }

RawPayloads(n) ==
    { Dict([PLAN |-> p, pageContextObjects |-> c, userInfo |-> u]) :
          p \in RawPlans(n), c \in RawMaps, u \in RawMaps }
    \cup { Dict([PLAN |-> p, pageContextObjects |-> c, userInfo |-> u,
                 status |-> st]) :
               p \in RawPlans(n), c \in RawMaps, u \in RawMaps, st \in RawStatuses }
    \cup { Dict([PLAN |-> List(<< >>), userInfo |-> Dict(EmptyMap)]),
           Dict([pageContextObjects |-> Dict(EmptyMap), userInfo |-> Dict(EmptyMap)]),
           List(<< >>) }

\* the responses whose PLAN has up to n steps
Responses(n) ==
    { [kind |-> "error"] } \cup { [kind |-> "json", parsed |-> v] : v \in RawPayloads(n) }

-----------------------------------------------------------------------------
(* run_automation *)

NoBatch ==
    [phase |-> "none", cycle |-> 0, commands |-> << >>, elements |-> EmptyMap,
     calls |-> << >>, visited |-> << >>, raised |-> FALSE, value |-> NoneV]

\* The locals of lines 293-300 and the state before the first pass.  commands,
\* status, elements and final_output are not bound yet in the code; they hold
\* a value that is never read before their first assignment.
Init ==
    /\ pc = "request_nav"
    /\ cycle = 1
    /\ previous_plan = NoneV
    /\ current_plan = Str(<< "No", " ", "plan", " ", "yet" >>)
    /\ model_output = NoneV
    /\ commands = << >>
    /\ status = NoneV
    /\ search_results = NoneV
    /\ session_messages = << >>
    /\ elements = EmptyMap
    /\ final_output = NoneV
    /\ session_data = NoneV
    /\ profiles = [u \in {user_id} |-> NoneV]
    /\ model_calls = 0
    /\ resolutions = 0
    /\ batch = NoBatch
    /\ batches = 0
    /\ summaries = 0
    /\ exit_reason = "running"
    /\ raw_response = NoneV
    /\ resolver_failed = FALSE
    /\ search_request = NoneV

\* f"\n{json.dumps(model_output.dict(), indent=2)}", the text appended to
\* session_messages: the program never reads it back, so the text is
\* identified by the model round (cycle and phase) whose output it dumps
Dumps(output, c, phase) == [cycle |-> c, phase |-> phase]

\* only the None test: an empty PLAN is let through
InvalidOutput_none_only(out) == out = NoneV

\* model_output is None or not model_output.PLAN
InvalidOutput(out) == out = NoneV \/ ~Truthy(List(out.PLAN))

\* Lines 307-367: load the session, ask the model for the navigation plan,
\* validate it, process it and run the stagnation check.
\* outcomes is what send_to_model may return.
NavRequestFrom(outcomes) ==
    /\ pc = "request_nav"
    /\ session_data' = manage_session_load(profiles, user_id)
    /\ model_calls' = model_calls + 1
    /\ \E out \in outcomes :
        /\ model_output' = out
        /\ IF InvalidOutput(out)
           THEN /\ pc' = "closing"
                /\ exit_reason' = "invalid_nav"
                /\ UNCHANGED << commands, status, session_messages,
                                current_plan, previous_plan >>
           ELSE LET r == process_model_output(out)
                IN  /\ commands' = r.commands
                    /\ status' = r.status
                    /\ session_messages' = Append(session_messages, Dumps(out, cycle, "nav"))
                    /\ current_plan' = List(out.PLAN)
                    /\ IF check_for_stagnation(previous_plan, current_plan')
                       THEN /\ pc' = "closing"
                            /\ exit_reason' = "stagnation"
                            /\ UNCHANGED previous_plan
                       ELSE /\ previous_plan' = current_plan'
                            /\ pc' = "nav_exec"
                            /\ UNCHANGED exit_reason
    /\ UNCHANGED << cycle, search_results, elements, final_output, profiles,
                    resolutions, batch, batches, summaries,
                    raw_response, search_request, resolver_failed >>

NavRequest == NavRequestFrom(ModelOutcomes)

\* the whole command list instead of its first element
NavBatch_all(cmds) == cmds

\* [commands[0]]
NavBatch(cmds) == << cmds[1] >>

\* Line 370: execute_browser_commands(page, [commands[0]], {}).  commands[0]
\* raises IndexError when commands is empty; nothing catches it.
NavExecute ==
    /\ pc = "nav_exec"
    /\ IF Len(commands) = 0
       THEN /\ pc' = "crashed"
            /\ exit_reason' = "IndexError"
            /\ UNCHANGED << search_results, batch, batches >>
       ELSE \E fails \in SUBSET (1..Len(NavBatch(commands))),
                   api \in SearchBehaviours :
                LET r == execute_browser_commands(NavBatch(commands), EmptyMap,
                                                  fails, api)
                IN  /\ search_results' = r.value
                    /\ batch' = [phase |-> "nav", cycle |-> cycle,
                                 commands |-> NavBatch(commands),
                                 elements |-> EmptyMap, calls |-> r.calls,
                                 visited |-> r.visited, raised |-> r.raised,
                                 value |-> r.value]
                    /\ batches' = batches + 1
                    /\ pc' = "resolve"
                    /\ UNCHANGED exit_reason
    /\ UNCHANGED << cycle, previous_plan, current_plan, model_output, commands,
                    status, session_messages, elements, final_output,
                    session_data, profiles, model_calls, resolutions, summaries,
                    raw_response, search_request, resolver_failed >>

\* Line 373: elements = self.get_all_interactable_elements(page)
Resolve ==
    /\ pc = "resolve"
    /\ \E dom \in Doms, failure \in Failures :
           /\ elements' = get_all_interactable_elements(dom, failure)
           /\ resolver_failed' = (failure # "none")
    /\ resolutions' = resolutions + 1
    /\ pc' = "request_act"
    /\ UNCHANGED << cycle, previous_plan, current_plan, model_output, commands,
                    status, search_results, session_messages, final_output,
                    session_data, profiles, model_calls, batch, batches,
                    summaries, exit_reason,
                    raw_response, search_request >>

\* Lines 411-419: ask the model for the action plan, validate and process it.
ActRequestFrom(outcomes) ==
    /\ pc = "request_act"
    /\ model_calls' = model_calls + 1
    /\ \E out \in outcomes :
        /\ model_output' = out
        /\ IF InvalidOutput(out)
           THEN /\ pc' = "closing"
                /\ exit_reason' = "invalid_act"
                /\ UNCHANGED << commands, status, session_messages >>
           ELSE LET r == process_model_output(out)
                IN  /\ commands' = r.commands
                    /\ status' = r.status
                    /\ session_messages' = Append(session_messages, Dumps(out, cycle, "act"))
                    /\ pc' = "act_exec"
                    /\ UNCHANGED exit_reason
    /\ UNCHANGED << cycle, previous_plan, current_plan, search_results,
                    elements, final_output, session_data, profiles,
                    resolutions, batch, batches, summaries,
                    raw_response, search_request, resolver_failed >>

ActRequest == ActRequestFrom(ModelOutcomes)

\* Line 422: self.execute_browser_commands(page, commands, elements)
ActExecute ==
    /\ pc = "act_exec"
    /\ \E fails \in SUBSET (1..Len(commands)), api \in SearchBehaviours :
           LET r == execute_browser_commands(commands, elements, fails, api)
           IN  batch' = [phase |-> "act", cycle |-> cycle, commands |-> commands,
                         elements |-> elements, calls |-> r.calls,
                         visited |-> r.visited, raised |-> r.raised,
                         value |-> r.value]
    /\ batches' = batches + 1
    /\ pc' = "save"
    /\ UNCHANGED << cycle, previous_plan, current_plan, model_output, commands,
                    status, search_results, session_messages, elements,
                    final_output, session_data, profiles, model_calls,
                    resolutions, summaries, exit_reason,
                    raw_response, search_request, resolver_failed >>

\* Line 425: self.manage_session(user_id, "save", session_messages)
Save ==
    /\ pc = "save"
    /\ profiles' = manage_session_save(profiles, user_id, session_messages)
    /\ pc' = "decide"
    /\ UNCHANGED << cycle, previous_plan, current_plan, model_output, commands,
                    status, search_results, session_messages, elements,
                    final_output, session_data, model_calls, resolutions,
                    batch, batches, summaries, exit_reason,
                    raw_response, search_request, resolver_failed >>

\* the WRONG status forgotten in the elif
NeedsHelp_not_sure_only(st) == st = Str(NotSure)

\* status == "NOT SURE" or status == "WRONG"
NeedsHelp(st) == st = Str(NotSure) \/ st = Str(Wrong)

\* Lines 427-436: the status decision
Decide ==
    /\ pc = "decide"
    /\ IF status = Str(Done)
       THEN /\ final_output' = Str(generate_final_output(model_output, search_results))
            /\ summaries' = summaries + 1
            /\ pc' = "closing"
            /\ exit_reason' = "done"
            /\ UNCHANGED << cycle, batch, resolver_failed >>
       ELSE IF NeedsHelp(status)
       THEN /\ pc' = "closing"
            /\ exit_reason' = "needs_help"
            /\ UNCHANGED << final_output, summaries, cycle, batch, resolver_failed >>
       ELSE /\ cycle < MaxCycles
            /\ cycle' = cycle + 1
            /\ pc' = "request_nav"
            /\ batch' = NoBatch
            /\ resolver_failed' = FALSE
            /\ UNCHANGED << final_output, summaries, exit_reason >>
    /\ UNCHANGED << previous_plan, current_plan, model_output, commands, status,
                    search_results, session_messages, elements, session_data,
                    profiles, model_calls, resolutions, batches,
                    raw_response, search_request >>

\* Line 439: browser.close()
Close ==
    /\ pc = "closing"
    /\ pc' = "closed"
    /\ UNCHANGED << cycle, previous_plan, current_plan, model_output, commands,
                    status, search_results, session_messages, elements,
                    final_output, session_data, profiles, model_calls,
                    resolutions, batch, batches, summaries, exit_reason,
                    raw_response, search_request, resolver_failed >>

Next ==
    \/ NavRequest
    \/ NavExecute
    \/ Resolve
    \/ ActRequest
    \/ ActExecute
    \/ Save
    \/ Decide
    \/ Close

Spec == Init /\ [][Next]_vars

-----------------------------------------------------------------------------
(* End-to-end scenario A: the model answers every navigation-phase request   *)
(* with PLAN=[{step_desc:"go", command:"GOTO_URL https://example.com"}],     *)
(* status null; its action-phase answers are unconstrained.                  *)

ScenarioANav == CommandOutput(<< PlanStep(<< "go" >>, GotoExample) >>, NoneV)

NavRequestA == NavRequestFrom({ ScenarioANav })

NextA ==
    \/ NavRequestA
    \/ NavExecute
    \/ Resolve
    \/ ActRequest
    \/ ActExecute
    \/ Save
    \/ Decide
    \/ Close

SpecA == Init /\ [][NextA]_vars

-----------------------------------------------------------------------------
(* The loop with searches: the model answers both rounds with plans that     *)
(* search, navigate, click, type or submit, and with status DONE or CONTINUE. *)

SearchVegan == << "GOOGLE_SEARCH_API", " ", "vegan" >>

ClickInput == << "CLICK", " ", "input_0" >>

SearchLoopPlans ==
    { << PlanStep(<< "go" >>, SearchVegan) >>,
      << PlanStep(<< "go" >>, GotoExample) >>,
      << PlanStep(<< "go" >>, ClickInput) >>,
      << PlanStep(<< "go" >>, << "TYPE", " ", "input_0", " ", "hi" >>) >>,
      << PlanStep(<< "go" >>, << "SUBMIT", " ", "input_0" >>) >>,
      << PlanStep(<< "go" >>, GotoExample), PlanStep(<< "go" >>, SearchVegan) >>,
      << PlanStep(<< "go" >>, ClickInput), PlanStep(<< "go" >>, SearchVegan) >> }

SearchLoopOutcomes ==
    { NoneV } \cup { CommandOutput(p, st) :
                         p \in SearchLoopPlans,
                         st \in { Str(Done), Str(<< "CONTINUE" >>) } }

NavRequestS == NavRequestFrom(SearchLoopOutcomes)

ActRequestS == ActRequestFrom(SearchLoopOutcomes)

NextS ==
    \/ NavRequestS
    \/ NavExecute
    \/ Resolve
    \/ ActRequestS
    \/ ActExecute
    \/ Save
    \/ Decide
    \/ Close

SpecS == Init /\ [][NextS]_vars

-----------------------------------------------------------------------------
(* execute_browser_commands on its own: every batch of up to MaxBatch        *)
(* commands, against an element map the resolver can produce.                *)

ExecCommands ==
    { << >>,
      << " " >>,
      GotoExample,
      << "GOTO_URL" >>,
      << "CLICK", " ", "input_0" >>,
      << "CLICK", " ", "missing_name" >>,
      << "CLICK" >>,
      << "TYPE", " ", "input_0", " ", "hello", " ", "world" >>,
      << "TYPE", " ", "input_0" >>,
      << "TYPE", " ", "missing_name", " ", "hello" >>,
      << "SUBMIT", " ", "input_0" >>,
      << "SUBMIT", " ", "missing_name" >>,
      << "SUBMIT" >>,
      << "GOOGLE_SEARCH_API", " ", "vegan" >>,
      << "SCROLL", " ", "down" >>,
      << "click", " ", "input_0" >> }

ElementMaps == { get_all_interactable_elements(d, f) : d \in Doms, f \in Failures }

InitExec ==
    /\ pc = "exec_ready"
    /\ commands \in SeqsUpTo(ExecCommands, MaxBatch)
    /\ elements \in ElementMaps
    /\ cycle = 1
    /\ previous_plan = NoneV
    /\ current_plan = Str(<< "No", " ", "plan", " ", "yet" >>)
    /\ model_output = NoneV
    /\ status = NoneV
    /\ search_results = NoneV
    /\ session_messages = << >>
    /\ final_output = NoneV
    /\ session_data = NoneV
    /\ profiles = [u \in {user_id} |-> NoneV]
    /\ model_calls = 0
    /\ resolutions = 0
    /\ batch = NoBatch
    /\ batches = 0
    /\ summaries = 0
    /\ exit_reason = "running"
    /\ raw_response = NoneV
    /\ resolver_failed = FALSE
    /\ search_request = NoneV

\* One call execute_browser_commands(page, commands, elements)
ExecuteBatch ==
    /\ pc = "exec_ready"
    /\ \E fails \in SUBSET (1..Len(commands)), api \in SearchBehaviours :
           LET r == execute_browser_commands(commands, elements, fails, api)
           IN  batch' = [phase |-> "exec", cycle |-> cycle, commands |-> commands,
                         elements |-> elements, calls |-> r.calls,
                         visited |-> r.visited, raised |-> r.raised,
                         value |-> r.value]
    /\ batches' = batches + 1
    /\ pc' = "exec_done"
    /\ UNCHANGED << cycle, previous_plan, current_plan, model_output, commands,
                    status, search_results, session_messages, elements,
                    final_output, session_data, profiles, model_calls,
                    resolutions, summaries, exit_reason,
                    raw_response, search_request, resolver_failed >>

NextExec == ExecuteBatch

SpecExec == InitExec /\ [][NextExec]_vars

-----------------------------------------------------------------------------
(* send_to_model alone *)

InitValidate ==
    /\ pc = "send_ready"
    /\ raw_response \in Responses(MaxSteps)
    /\ commands = << >>
    /\ elements = EmptyMap
    /\ cycle = 1
    /\ previous_plan = NoneV
    /\ current_plan = Str(<< "No", " ", "plan", " ", "yet" >>)
    /\ model_output = NoneV
    /\ status = NoneV
    /\ search_results = NoneV
    /\ session_messages = << >>
    /\ final_output = NoneV
    /\ session_data = NoneV
    /\ profiles = [u \in {user_id} |-> NoneV]
    /\ model_calls = 0
    /\ resolutions = 0
    /\ batch = NoBatch
    /\ batches = 0
    /\ summaries = 0
    /\ exit_reason = "running"
    /\ resolver_failed = FALSE
    /\ search_request = NoneV

\* One call send_to_model(prompt)
SendToModel ==
    /\ pc = "send_ready"
    /\ model_output' = send_to_model(raw_response)
    /\ model_calls' = model_calls + 1
    /\ pc' = "send_done"
    /\ UNCHANGED << cycle, previous_plan, current_plan, commands, status,
                    search_results, session_messages, elements, final_output,
                    session_data, profiles, resolutions, batch, batches,
                    summaries, exit_reason, raw_response, search_request, resolver_failed >>

NextValidate == SendToModel

SpecValidate == InitValidate /\ [][NextValidate]_vars

-----------------------------------------------------------------------------
(* manage_session alone *)

SessionUsers == { user_id, "other_user" }

\* the texts handed to save: an empty transcript and the transcript of one pass
SessionEntries ==
    { << >>, << Dumps(NoneV, 1, "nav"), Dumps(NoneV, 1, "act") >> }

FreshProfile(user) ==
    [type |-> "profile", user_id |-> user, preferences |-> EmptyMap,
     session_history |-> << >>]

InitSession ==
    /\ pc = "session_ready"
    /\ profiles \in [SessionUsers -> { NoneV }]
                    \cup { [u \in SessionUsers |->
                                IF u = user_id THEN FreshProfile(u) ELSE NoneV] }
    /\ session_data = NoneV
    /\ commands = << >>
    /\ elements = EmptyMap
    /\ cycle = 1
    /\ previous_plan = NoneV
    /\ current_plan = Str(<< "No", " ", "plan", " ", "yet" >>)
    /\ model_output = NoneV
    /\ status = NoneV
    /\ search_results = NoneV
    /\ session_messages = << >>
    /\ final_output = NoneV
    /\ model_calls = 0
    /\ resolutions = 0
    /\ batch = NoBatch
    /\ batches = 0
    /\ summaries = 0
    /\ exit_reason = "running"
    /\ raw_response = NoneV
    /\ resolver_failed = FALSE
    /\ search_request = NoneV

\* One call manage_session(user, action, data); pc names the action of the
\* last call.
SessionCall(user, action, data, after) ==
    /\ LET r == manage_session(profiles, session_data, user, action, data)
       IN  /\ profiles' = r.files
           /\ session_data' = r.session_data
    /\ pc' = after
    /\ UNCHANGED << cycle, previous_plan, current_plan, model_output, commands,
                    status, search_results, session_messages, elements,
                    final_output, model_calls, resolutions, batch, batches,
                    summaries, exit_reason, raw_response, search_request, resolver_failed >>

SessionLoad == \E user \in SessionUsers : SessionCall(user, "load", NoneV, "loaded")

SessionSave ==
    \E user \in SessionUsers, data \in SessionEntries :
        /\ Len(load_user_profile(profiles, user).session_history) < MaxHistory
        /\ SessionCall(user, "save", data, "saved")

SessionClear == \E user \in SessionUsers : SessionCall(user, "clear", NoneV, "cleared")

NextSession == SessionLoad \/ SessionSave \/ SessionClear

SpecSession == InitSession /\ [][NextSession]_vars

-----------------------------------------------------------------------------
(* google_search alone *)

Words == { "a", "b" }

\* the queries of up to n tokens, possibly with whitespace before and after
Queries(n) ==
    UNION { { Join(w),
              IF w = << >> THEN << " " >> ELSE << " " >> \o Join(w) \o << " " >> } :
                w \in SeqsUpTo(Words, n) }

InitSearch ==
    /\ pc = "search_ready"
    /\ search_request \in { [query |-> q, q |-> NoneV, answer |-> NoneV] :
                                 q \in Queries(MaxQuery) }
    /\ commands = << >>
    /\ elements = EmptyMap
    /\ cycle = 1
    /\ previous_plan = NoneV
    /\ current_plan = Str(<< "No", " ", "plan", " ", "yet" >>)
    /\ model_output = NoneV
    /\ status = NoneV
    /\ search_results = NoneV
    /\ session_messages = << >>
    /\ final_output = NoneV
    /\ session_data = NoneV
    /\ profiles = [u \in {user_id} |-> NoneV]
    /\ model_calls = 0
    /\ resolutions = 0
    /\ batch = NoBatch
    /\ batches = 0
    /\ summaries = 0
    /\ exit_reason = "running"
    /\ raw_response = NoneV
    /\ resolver_failed = FALSE

\* One call google_search(query): the request it sends and the list it returns
GoogleSearch ==
    /\ pc = "search_ready"
    /\ \E api \in SearchBehaviours :
           /\ search_request' = [query  |-> search_request.query,
                                 q      |-> Str(SimplifiedQuery(search_request.query)),
                                 answer |-> api]
           /\ search_results' = List(google_search(search_request.query, api))
    /\ pc' = "search_done"
    /\ UNCHANGED << cycle, previous_plan, current_plan, model_output, commands,
                    status, session_messages, elements, final_output,
                    session_data, profiles, model_calls, resolutions, batch,
                    batches, summaries, exit_reason, raw_response,
                    resolver_failed >>

NextSearch == GoogleSearch

SpecSearch == InitSearch /\ [][NextSearch]_vars

-----------------------------------------------------------------------------
(* Properties of the control loop *)

\* The output passed validation and its PLAN has at least one step.
ValidNonEmpty(out) == out # NoneV /\ Len(out.PLAN) > 0

\* A step that leaves the outside world alone: no model call, no page command,
\* no element resolution, nothing written to the session store, no summary.
NoEffect ==
    /\ model_calls' = model_calls
    /\ batches' = batches
    /\ resolutions' = resolutions
    /\ profiles' = profiles
    /\ summaries' = summaries

Terminated == pc \in { "closing", "closed" }

\* C1: when the navigation-phase plan of a cycle equals, step by step
\* (step_desc and command), the navigation-phase plan accepted in the previous
\* cycle, the loop leaves at the stagnation check of that cycle, and from then
\* on no page command is executed, no element resolution is done, no model
\* call is made and nothing is saved to the session store.
C1_StagnationTerminates ==
    [][ /\ ( /\ pc = "request_nav"
             /\ model_calls' = model_calls + 1
             /\ ValidNonEmpty(model_output')
             /\ previous_plan = List(model_output'.PLAN) )
          => ( /\ pc' = "closing"
               /\ exit_reason' = "stagnation"
               /\ batches' = batches
               /\ resolutions' = resolutions
               /\ profiles' = profiles )
        /\ (exit_reason = "stagnation") => (pc' = "closed" /\ NoEffect)
      ]_vars

\* The second cycle's navigation plan repeated the first one's and the loop
\* has left through the stagnation check.
C1_Witness ==
    /\ pc = "closed"
    /\ exit_reason = "stagnation"
    /\ cycle = 2
    /\ previous_plan = current_plan
    /\ batch = NoBatch

\* C2: at the status decision of a cycle whose action-phase output is valid
\* and non-empty, status DONE produces the final summary exactly once and
\* terminates the loop, status NOT SURE or WRONG terminates it without a
\* summary, and after either no model call or page command follows.
C2_TerminalStatuses ==
    [][ /\ (pc = "decide" /\ ValidNonEmpty(model_output)
            /\ model_output.status = Str(Done))
          => ( /\ pc' = "closing"
               /\ summaries = 0 /\ summaries' = 1
               /\ final_output = NoneV /\ final_output' # NoneV
               /\ model_calls' = model_calls /\ batches' = batches )
        /\ (pc = "decide" /\ ValidNonEmpty(model_output)
            /\ model_output.status \in { Str(NotSure), Str(Wrong) })
          => ( /\ pc' = "closing"
               /\ summaries' = 0
               /\ final_output' = NoneV
               /\ model_calls' = model_calls /\ batches' = batches )
        /\ (exit_reason \in { "done", "needs_help" }) => (pc' = "closed" /\ NoEffect)
      ]_vars

\* The loop has ended on status WRONG without a summary.
C2_Witness ==
    /\ pc = "closed"
    /\ exit_reason = "needs_help"
    /\ model_output.status = Str(Wrong)
    /\ summaries = 0
    /\ batch.phase = "act"

\* C3: when the action-phase output of a cycle is valid and non-empty and its
\* status is absent (null), the loop does not terminate: it goes back to
\* step 1 for a new navigation-phase model call.
C3_AbsentStatusContinues ==
    [][ (pc = "decide" /\ cycle < MaxCycles /\ ValidNonEmpty(model_output)
         /\ model_output.status = NoneV)
          => (pc' = "request_nav" /\ cycle' = cycle + 1) ]_vars

\* The final summary holds the given line.
HasLine(out, line) ==
    /\ out.type = "str"
    /\ \E k \in 1..Len(out.val) : out.val[k] = line

\* Scenario A's second response has been received: status DONE and no command
\* in the plan.
ScenarioAEnded ==
    /\ Terminated
    /\ cycle = 1
    /\ model_calls = 2
    /\ model_output # NoneV
    /\ model_output.status = Str(Done)
    /\ \A k \in 1..Len(model_output.PLAN) : model_output.PLAN[k].command = << >>

\* Scenario A's navigation happened: one goto of the plan's URL, then the
\* element resolution.
ScenarioANavigated ==
    /\ batch.phase = "nav"
    /\ batch.commands = << GotoExample >>
    /\ Len(batch.calls) = 1
    /\ batch.calls[1].op = "goto"
    /\ batch.calls[1].target = "https://example.com"

\* C4 as stated: in scenario A, a second response with status DONE and an
\* empty set of plan commands ends the loop with a final summary that contains
\* "Task Status: DONE".
C4_ScenarioA_AnyEmptyCommandSet ==
    ScenarioAEnded => HasLine(final_output, Line("Task Status", << "DONE" >>))

\* C4, amended: in scenario A the loop navigates and then requests an action
\* plan; a second response with status DONE and at least one step, all of
\* whose commands are empty, ends the loop with a final summary that contains
\* "Task Status: DONE" (a second response with no step at all ends the loop
\* without a summary).
C4_ScenarioA ==
    /\ (cycle = 1 /\ pc \in { "resolve", "request_act" }) => ScenarioANavigated
    /\ (cycle = 1 /\ model_calls = 2) => resolutions = 1
    /\ (ScenarioAEnded /\ Len(model_output.PLAN) > 0)
          => ( /\ exit_reason = "done"
               /\ summaries = 1
               /\ HasLine(final_output, Line("Task Status", << "DONE" >>)) )
    /\ (ScenarioAEnded /\ Len(model_output.PLAN) = 0)
          => (exit_reason = "invalid_act" /\ final_output = NoneV)

\* Scenario A has ended on DONE with a plan of one step whose command is
\* empty, after one navigation.
C4_Witness ==
    /\ ScenarioAEnded
    /\ pc = "closed"
    /\ Len(model_output.PLAN) = 1
    /\ batches = 2
    /\ HasLine(final_output, Line("Task Status", << "DONE" >>))

\* C5: in either phase, a model call that yields no valid output or a plan
\* with no step ends the loop in that phase: no page command, element
\* resolution, session save or model call follows in the run.
C5_InvalidOutputTerminates ==
    [][ /\ ( /\ model_calls' = model_calls + 1
             /\ (model_output' = NoneV \/ model_output'.PLAN = << >>) )
          => ( /\ pc' = "closing"
               /\ exit_reason' = (IF pc = "request_nav" THEN "invalid_nav"
                                  ELSE "invalid_act")
               /\ batches' = batches
               /\ resolutions' = resolutions
               /\ profiles' = profiles )
        /\ (exit_reason \in { "invalid_nav", "invalid_act" })
          => (pc' = "closed" /\ NoEffect)
      ]_vars

\* The action phase of the second cycle got a plan with no step and the loop
\* has ended there.
C5_Witness ==
    /\ pc = "closed"
    /\ exit_reason = "invalid_act"
    /\ cycle = 2
    /\ model_output # NoneV
    /\ model_output.PLAN = << >>
    /\ batch.phase = "nav"

\* C6: no internal failure is fatal to the run: whatever schema-valid
\* responses the model gives (plans whose commands are all empty included)
\* and whichever page primitives fail, the loop never aborts with an uncaught
\* error, so every exit from the loop reaches the browser close.
C6_NeverAborts == pc # "crashed"

\* The first command of a plan as the loop takes it: the command of the first
\* step whose command is not empty.
FirstCommand(plan) ==
    LET k == CHOOSE j \in 1..Len(plan) :
                 /\ plan[j].command # << >>
                 /\ \A h \in 1..(j - 1) : plan[h].command = << >>
    IN  plan[k].command

\* The for loop went through the positions 1, 2, ... in order, and the calls
\* were made in that order.
InOrder(b) ==
    /\ \A k \in 1..Len(b.visited) : b.visited[k] = k
    /\ \A k \in 1..Len(b.calls) : b.calls[k].cmd \in 1..Len(b.visited)
    /\ \A j, k \in 1..Len(b.calls) : j < k => b.calls[j].cmd < b.calls[k].cmd

-----------------------------------------------------------------------------
(* Properties of the command interpreter *)

\* The calls made for the command at position i of the batch.
CallsAt(b, i) == { k \in 1..Len(b.calls) : b.calls[k].cmd = i }

\* The for loop reached position i.
Visited(b, i) == \E k \in 1..Len(b.visited) : b.visited[k] = i

\* The command at position i was passed over: it made no call, it did not end
\* the batch, and the for loop went on to the next command if there is one.
PassedOver(b, i) ==
    /\ CallsAt(b, i) = {}
    /\ i < Len(b.commands) => Visited(b, i + 1)
    /\ i = Len(b.commands) => (~b.raised /\ b.value = NoneV)

\* A CLICK, TYPE or SUBMIT command that names an element absent from the map.
UnmappedReference(command, elems) ==
    LET parts == Split(command)
    IN  /\ Len(parts) >= 2
        /\ parts[1] \in { "CLICK", "TYPE", "SUBMIT" }
        /\ parts[2] \notin DOMAIN elems

\* C8: in execute_browser_commands a CLICK, TYPE or SUBMIT command whose
\* element name is absent from the element map invokes no page primitive and
\* raises nothing, and every later command of the batch is still processed
\* in order.
C8_UnmappedElementSkipped ==
    batch.phase = "exec" =>
        /\ \A k \in 1..Len(batch.visited) : batch.visited[k] = k
        /\ \A i \in 1..Len(batch.commands) :
              (Visited(batch, i) /\ UnmappedReference(batch.commands[i], batch.elements))
                  => PassedOver(batch, i)

\* An unmapped CLICK stood before a TYPE on a mapped element, and the TYPE
\* still filled the element with the rest of its line.
C8_Witness ==
    /\ batch.phase = "exec"
    /\ Len(batch.commands) = 2
    /\ batch.commands[1] = << "CLICK", " ", "missing_name" >>
    /\ batch.visited = << 1, 2 >>
    /\ Len(batch.calls) = 1
    /\ batch.calls[1].cmd = 2
    /\ batch.calls[1].op = "fill"
    /\ batch.calls[1].text = << "hello", " ", "world" >>

\* A page primitive raised in the batch.
PrimitiveRaised(b) ==
    \E k \in 1..Len(b.calls) : b.calls[k].op # "search" /\ b.calls[k].raises

\* The batch stopped at its last call: no call and no command after it.
StoppedAtLastCall(b) ==
    /\ \A k \in 1..(Len(b.calls) - 1) : ~b.calls[k].raises
    /\ b.calls[Len(b.calls)].raises
    /\ b.visited[Len(b.visited)] = b.calls[Len(b.calls)].cmd
    /\ b.raised
    /\ b.value = NoneV

\* C9: when a page primitive raises during a batch, none of the remaining
\* commands of the batch is executed, the error does not reach the control
\* loop, and the loop goes on to its next phase: element resolution and the
\* action-phase model call after a navigation batch, the session save and the
\* status decision after an action batch.
C9_PrimitiveFailureAbortsBatchOnly ==
    PrimitiveRaised(batch) =>
        /\ StoppedAtLastCall(batch)
        /\ pc # "crashed"
        /\ batch.phase = "nav" =>
              \/ pc = "resolve" /\ resolutions = cycle - 1
              \/ pc = "request_act" /\ resolutions = cycle /\ model_calls = 2 * cycle - 1
              \/ pc \in { "act_exec", "closing", "closed" }
                    /\ resolutions = cycle /\ model_calls = 2 * cycle
        /\ batch.phase = "act" =>
              \/ pc = "save" /\ Len(load_user_profile(profiles, user_id).session_history) = cycle - 1
              \/ pc \in { "decide", "closing", "closed" }
                    /\ Len(load_user_profile(profiles, user_id).session_history) = cycle

\* The first of two action commands raised in the page, the second was never
\* reached, and the loop went on to save the session and decide.
C9_Witness ==
    /\ batch.phase = "act"
    /\ Len(batch.commands) = 2
    /\ PrimitiveRaised(batch)
    /\ batch.visited = << 1 >>
    /\ pc = "closed"
    /\ exit_reason = "done"

\* A command the interpreter should skip: no token at all, a verb that is
\* none of the five, or too few tokens for its verb.
Unrecognized(command) ==
    LET parts == Split(command)
    IN  \/ Len(parts) = 0
        \/ parts[1] \notin { "GOTO_URL", "CLICK", "TYPE", "SUBMIT", "GOOGLE_SEARCH_API" }
        \/ parts[1] \in { "GOTO_URL", "CLICK", "SUBMIT" } /\ Len(parts) < 2
        \/ parts[1] = "TYPE" /\ Len(parts) < 3

\* C10: in execute_browser_commands every command whose verb is not one of
\* the five recognized verbs, or which has too few tokens for its verb
\* (GOTO_URL, CLICK or SUBMIT with no argument, TYPE with fewer than two
\* arguments, a command with no token at all), is skipped: it invokes no page
\* primitive and the later commands of the batch are still processed.
C10_UnrecognizedSkipped ==
    batch.phase = "exec" =>
        \A i \in 1..Len(batch.commands) :
            (Visited(batch, i) /\ Unrecognized(batch.commands[i]))
                => PassedOver(batch, i)

-----------------------------------------------------------------------------
(* Properties of the search command *)

IsSearch(command) ==
    Len(Split(command)) > 0 /\ Split(command)[1] = "GOOGLE_SEARCH_API"

\* the result list the Search Connector hands back for an answer of the API
Connector(answer) ==
    IF answer.kind = "ok" /\ "items" \in DOMAIN answer.body
    THEN List(answer.body.items)
    ELSE List(<< >>)

SearchCallsAt(i) ==
    { k \in 1..Len(batch.calls) : batch.calls[k].cmd = i /\ batch.calls[k].op = "search" }

\* C11: a GOOGLE_SEARCH_API command the batch reaches invokes the Search
\* Connector exactly once, the batch returns the connector's result list at
\* once and no command placed after it is reached or makes a call; a batch
\* without a GOOGLE_SEARCH_API command returns no results (None).
C11_SearchReturnsImmediately ==
    batch.phase # "none" =>
        /\ \A v \in 1..Len(batch.visited) :
               LET i == batch.visited[v]
               IN  IsSearch(batch.commands[i]) =>
                       /\ Cardinality(SearchCallsAt(i)) = 1
                       /\ \A k \in SearchCallsAt(i) :
                              /\ k = Len(batch.calls)
                              /\ batch.value = Connector(batch.calls[k].answer)
                       /\ v = Len(batch.visited)
                       /\ \A j \in (i + 1)..Len(batch.commands) : CallsAt(batch, j) = {}
        /\ (\A i \in 1..Len(batch.commands) : ~IsSearch(batch.commands[i]))
               => batch.value = NoneV

\* a search command followed by a command that would navigate was reached,
\* and the batch returned a non-empty result list
C11_Witness ==
    /\ batch.phase = "exec"
    /\ Len(batch.commands) = 2
    /\ IsSearch(batch.commands[1])
    /\ batch.commands[2] = GotoExample
    /\ batch.value.type = "list"
    /\ batch.value.val # << >>

-----------------------------------------------------------------------------
(* Properties of the schema validator *)

\* the payload has PLAN, pageContextObjects and userInfo
HasRequired ==
    /\ raw_response.kind = "json"
    /\ raw_response.parsed.type = "dict"
    /\ {"PLAN", "pageContextObjects", "userInfo"} \subseteq DOMAIN raw_response.parsed.val

Payload == raw_response.parsed.val

Accepted == model_output.type = "CommandOutput"

IsString(step, f) ==
    step.type = "dict" /\ f \in DOMAIN step.val /\ step.val[f].type = "str"

IsSequence(v) == v.type = "list"

\* pageContextObjects and userInfo are maps and status is absent, null or a
\* string
WellTypedRest ==
    /\ Payload.pageContextObjects.type = "dict"
    /\ Payload.userInfo.type = "dict"
    /\ "status" \in DOMAIN Payload => Payload.status.type \in {"NoneType", "str"}

\* C12 as stated, read for payloads whose other fields are well typed: a
\* payload with the three required fields is accepted exactly when PLAN is a
\* sequence and every step has a non-empty step_desc and a non-empty command,
\* and a rejected payload yields None.
C12_AcceptsIffNonEmptySteps ==
    (pc = "send_done" /\ HasRequired /\ WellTypedRest) =>
        /\ Accepted <=>
               /\ IsSequence(Payload.PLAN)
               /\ \A k \in 1..Len(Payload.PLAN.val) :
                      \A f \in {"step_desc", "command"} :
                          /\ IsString(Payload.PLAN.val[k], f)
                          /\ Payload.PLAN.val[k].val[f].val # << >>
        /\ ~Accepted => model_output = NoneV

\* C12 (amended): a payload with the three required fields, whose
\* pageContextObjects and userInfo are maps and whose status is absent, null
\* or a string, is accepted exactly when PLAN is a sequence and every step is
\* an object whose step_desc and command are present strings, the empty
\* string included; the accepted output carries these steps in order, and a
\* rejected payload yields None.
C12_AcceptsIffStepsPresent ==
    (pc = "send_done" /\ HasRequired) =>
        /\ WellTypedRest =>
               /\ Accepted <=>
                      /\ IsSequence(Payload.PLAN)
                      /\ \A k \in 1..Len(Payload.PLAN.val) :
                             \A f \in {"step_desc", "command"} :
                                 IsString(Payload.PLAN.val[k], f)
               /\ Accepted =>
                      /\ Len(model_output.PLAN) = Len(Payload.PLAN.val)
                      /\ \A k \in 1..Len(model_output.PLAN) :
                             /\ model_output.PLAN[k].step_desc
                                    = Payload.PLAN.val[k].val.step_desc.val
                             /\ model_output.PLAN[k].command
                                    = Payload.PLAN.val[k].val.command.val
        /\ ~Accepted => model_output = NoneV

\* a payload whose only step has an empty command was accepted
C12_Witness ==
    /\ pc = "send_done"
    /\ HasRequired
    /\ Accepted
    /\ Len(model_output.PLAN) = 1
    /\ model_output.PLAN[1].command = << >>
    /\ model_output.PLAN[1].step_desc = << "go" >>

-----------------------------------------------------------------------------
(* Properties of the session store *)

\* the persisted history of a user; a user without a file has none
History(files, u) ==
    IF files[u] = NoneV THEN << >> ELSE files[u].session_history

\* the history of u grew by exactly one entry at its end
ExtendedByOne(u) ==
    /\ Len(History(profiles', u)) = Len(History(profiles, u)) + 1
    /\ SubSeq(History(profiles', u), 1, Len(History(profiles, u)))
           = History(profiles, u)

\* C13: the persisted session_history is append-only: every call of
\* manage_session leaves each user's persisted history as it was or extends
\* it by exactly one entry at the end, the earlier entries unchanged and in
\* place; and each save does extend the history of one user by one entry.
C13_HistoryAppendOnly ==
    [][/\ \A u \in DOMAIN profiles :
              History(profiles', u) = History(profiles, u) \/ ExtendedByOne(u)
       /\ pc' = "saved" =>
              \E u \in DOMAIN profiles :
                  /\ ExtendedByOne(u)
                  /\ \A w \in DOMAIN profiles \ {u} : profiles'[w] = profiles[w]]_vars

\* two entries are persisted for a user while the session data in memory
\* has since been cleared
C13_Witness ==
    /\ pc = "saved"
    /\ Len(History(profiles, user_id)) = 2
    /\ History(profiles, user_id)[1] # History(profiles, user_id)[2]
    /\ session_data = List(<< >>)

\* C14: only save changes the persisted profiles: a load, also of a user
\* without a profile (whose session data is then the empty history), and a
\* clear leave every profile file as it was.
C14_OnlySaveChangesStore ==
    [][/\ profiles' # profiles => pc' = "saved"
       /\ pc' \in {"loaded", "cleared"} =>
              /\ profiles' = profiles
              /\ session_data' = List(<< >>)
                     \/ \E u \in DOMAIN profiles :
                            /\ profiles[u] # NoneV
                            /\ session_data' = List(profiles[u].session_history)]_vars

\* a user without a profile was loaded: the session data is the empty
\* history and the user still has no profile
C14_Witness ==
    /\ pc = "loaded"
    /\ profiles[user_id] = NoneV
    /\ profiles["other_user"] # NoneV
    /\ session_data = List(<< >>)

-----------------------------------------------------------------------------
(* Properties of the Search Connector *)

\* the whitespace-separated tokens of the query google_search was given
GivenTokens == SelectSeq(search_request.query, LAMBDA x : x # " ")

\* C15: the query google_search sends is the first 10 whitespace-separated
\* tokens of the query it is given (all of them when there are 10 or fewer)
\* with one space between consecutive tokens and none around them; when the
\* request fails or the answer holds no items the result is the empty list,
\* otherwise it is the answer's items.
C15_QueryTruncatedToTenTokens ==
    pc = "search_done" =>
        LET n    == IF Len(GivenTokens) < 10 THEN Len(GivenTokens) ELSE 10
            sent == search_request.q.val
        IN  /\ Len(sent) = (IF n = 0 THEN 0 ELSE 2 * n - 1)
            /\ \A k \in 1..n : sent[2 * k - 1] = GivenTokens[k]
            /\ \A k \in 1..(n - 1) : sent[2 * k] = " "
            /\ (search_request.answer.kind = "error"
                    \/ "items" \notin DOMAIN search_request.answer.body)
                   => search_results = List(<< >>)
            /\ (search_request.answer.kind = "ok"
                    /\ "items" \in DOMAIN search_request.answer.body)
                   => search_results = List(search_request.answer.body.items)

\* a query of 11 tokens with whitespace around it was sent as 10 tokens, and
\* the request failed
C15_Witness ==
    /\ pc = "search_done"
    /\ Len(GivenTokens) = 11
    /\ search_request.query[1] = " "
    /\ Len(search_request.q.val) = 19
    /\ search_request.answer.kind = "error"
    /\ search_results = List(<< >>)

-----------------------------------------------------------------------------
(* Properties of the element resolution *)

\* C16: a resolution in which the enumeration of any element kind fails
\* leaves the empty element map, never a partial one; the failure does not
\* end the loop, which goes on to the action-phase model call with that
\* empty map.
C16_ResolutionAllOrNothing ==
    [][/\ (pc = "resolve" /\ resolver_failed') =>
              /\ DOMAIN elements' = {}
              /\ pc' = "request_act"
              /\ exit_reason' = "running"
       /\ (pc = "request_act" /\ resolver_failed) =>
              /\ DOMAIN elements = {}
              /\ model_calls' = model_calls + 1
              /\ elements' = elements]_vars

\* the action-phase model call was made after a failed resolution and gave a
\* plan that the loop goes on to execute
C16_Witness ==
    /\ pc = "act_exec"
    /\ resolver_failed
    /\ DOMAIN elements = {}
    /\ resolutions = 1
    /\ model_calls = 2

-----------------------------------------------------------------------------
(* Properties of the transcript *)

\* the model rounds of pass c alone
RoundsOf(c) == << [cycle |-> c, phase |-> "nav"], [cycle |-> c, phase |-> "act"] >>

\* the model rounds of the passes 1..c, in order
RoundsUpTo(c) ==
    [k \in 1..(2 * c) |->
        [cycle |-> (k + 1) \div 2, phase |-> IF k % 2 = 1 THEN "nav" ELSE "act"]]

EndedEarly(reason) == reason \in {"invalid_nav", "invalid_act", "stagnation"}

\* the session store changes only in the save of step 9, which follows the
\* action batch of the same pass and precedes the status decision, and every
\* step 9 appends exactly one entry; a pass that ends on invalid output or
\* on stagnation appends nothing
OneEntryPerPass(entry) ==
    /\ profiles' # profiles =>
           /\ pc = "save" /\ pc' = "decide"
           /\ batch.phase = "act" /\ batch.cycle = cycle
           /\ History(profiles', user_id) = Append(History(profiles, user_id), entry)
    /\ pc = "save" => Len(History(profiles', user_id)) = cycle
    /\ EndedEarly(exit_reason') =>
           /\ profiles' = profiles
           /\ Len(History(profiles', user_id)) = cycle' - 1

\* C17 as stated: the entry appended in a pass is the transcript of the two
\* model rounds of that pass.
C17_EntryIsThisCyclesRounds == [][OneEntryPerPass(RoundsOf(cycle))]_vars

\* C17 (amended): the entry appended in a pass is the transcript accumulated
\* since the start of the run: the navigation and action rounds of every
\* pass up to and including that one.
C17_EntryIsAccumulatedTranscript == [][OneEntryPerPass(RoundsUpTo(cycle))]_vars

\* the second pass has saved its entry: it holds four rounds
C17_Witness ==
    /\ pc = "decide"
    /\ cycle = 2
    /\ Len(History(profiles, user_id)) = 2
    /\ History(profiles, user_id)[1] = RoundsOf(1)
    /\ Len(History(profiles, user_id)[2]) = 4

-----------------------------------------------------------------------------
(* Properties of the stagnation check *)

\* C18: previous_plan is None at the first stagnation check and is assigned
\* only by a navigation round whose plan passed the check, to that plan: so
\* at every later check it is the navigation plan accepted in the pass
\* before.  The loop leaves through the stagnation check only in a
\* navigation round after the first, on a plan equal to previous_plan; an
\* action round neither assigns previous_plan nor ends the loop for
\* stagnation, whatever plan it returns.
C18_PreviousIsLastNavigationPlan ==
    [][/\ (pc = "request_nav" /\ cycle = 1) => previous_plan = NoneV
       /\ previous_plan' # previous_plan =>
              /\ pc = "request_nav" /\ pc' = "nav_exec"
              /\ previous_plan' = List(model_output'.PLAN)
       /\ (pc = "request_nav" /\ pc' = "nav_exec") =>
              previous_plan' = List(model_output'.PLAN)
       /\ (exit_reason' = "stagnation" /\ exit_reason # "stagnation") =>
              /\ pc = "request_nav"
              /\ cycle > 1
              /\ previous_plan = List(model_output'.PLAN)
       /\ pc = "request_act" =>
              /\ previous_plan' = previous_plan
              /\ exit_reason' # "stagnation"]_vars

\* the action round of the second pass returned a plan other than the stored
\* navigation plan, and the stored plan is still the navigation plan
C18_Witness ==
    /\ pc = "act_exec"
    /\ cycle = 2
    /\ exit_reason = "running"
    /\ previous_plan = current_plan
    /\ List(model_output.PLAN) # previous_plan

-----------------------------------------------------------------------------
(* Properties of the captured search results *)

Captured == search_results.type = "list" /\ search_results.val # << >>

\* C19: once search_results holds a non-empty result list, every one of its
\* items is still in search_results after any step of the loop, and the
\* final summary produced at a DONE decision holds the title and the link of
\* every one of them.
C19_ResultsStayCaptured ==
    [][Captured =>
          /\ search_results'.type = "list"
          /\ \A k \in 1..Len(search_results.val) :
                 \E j \in 1..Len(search_results'.val) :
                     search_results'.val[j] = search_results.val[k]
          /\ (pc = "decide" /\ status = Str(Done)) =>
                 \A k \in 1..Len(search_results.val) :
                     /\ HasLine(final_output', Line("Title", << search_results.val[k].title >>))
                     /\ HasLine(final_output', Line("URL", << search_results.val[k].link >>))]_vars

-----------------------------------------------------------------------------
(* Properties of the two phases *)

OnPageElement(call) == call.op \in {"click", "fill", "press"}

\* C20: the navigation batch runs against the empty element map and makes at
\* most one call, a page navigation or a Search Connector call; every click,
\* fill and press belongs to the action batch of the current pass, and its
\* selector is a value of the element map resolved in that pass.
C20_NavigationTouchesNoElement ==
    /\ batch.phase = "nav" =>
           /\ DOMAIN batch.elements = {}
           /\ Len(batch.calls) <= 1
           /\ \A k \in 1..Len(batch.calls) : batch.calls[k].op \in {"goto", "search"}
    /\ \A k \in 1..Len(batch.calls) :
           OnPageElement(batch.calls[k]) =>
               /\ batch.phase = "act"
               /\ batch.cycle = cycle
               /\ resolutions = cycle
               /\ batch.elements = elements
               /\ \E n \in DOMAIN elements : batch.calls[k].target = elements[n]

\* after a navigation round that searched, the action batch of the same
\* pass clicked on a resolved element
C20_Witness ==
    /\ batch.phase = "act"
    /\ Captured
    /\ Len(batch.calls) > 0
    /\ batch.calls[1].op = "click"
    /\ batch.calls[1].target = elements["input_0"]

=============================================================================
